---- MODULE Spec2Model ----
(***************************************************************************)
(* CAP LTER arthropods dashboard: the data-preparation pipeline shared by  *)
(* main.py (callback dashboard) and streamlit_app.py (sidebar page), the   *)
(* filter function of each front end and the aggregates each interaction   *)
(* recomputes.                                                             *)
(*                                                                         *)
(* A table is a record [obj, cols, rows]: the identity of the DataFrame    *)
(* object ("base" for the process-wide joined table, "derived" for any     *)
(* other), the set of its column names and the sequence of its rows.  A    *)
(* row carries a field for every column the pipeline can produce; a field  *)
(* whose column is not in cols is a placeholder nothing reads.             *)
(*                                                                         *)
(* A CSV cell is a record [k, s, n]: k = "str" (text s with n blanks       *)
(* around it), "num" (a number, n in tenths), "date" (a parseable date,    *)
(* n = yyyymmdd) or "na" (an empty cell).                                  *)
(*                                                                         *)
(* The result of a groupby(...).sum().reset_index() is kept as the set of  *)
(* its rows: its row order is a function of the keys (groupby sorts them,  *)
(* sort_values re-sorts them) and no figure reads more than the rows.      *)
(***************************************************************************)
EXTENDS Integers, Sequences, FiniteSets, TLC

VARIABLES
    arth_csv,      \* 41_core_arthropods.csv as read
    sites_csv,     \* arthros_temporal.csv as read
    landuse_csv,   \* site_landuse_from_nlcd.csv as read
    tie,           \* how the sort behind sort_values orders equal totals
    pc,            \* "load" | "ready" | "returned" | "raised"
    arth,          \* the joined base table (module-level arth)
    opts,          \* filter options and date bounds computed at startup
    out            \* what the last interaction returned

vars == <<arth_csv, sites_csv, landuse_csv, tie, pc, arth, opts, out>>

-----------------------------------------------------------------------------
(* Missing values *)

\* float NaN (a missing number: count before fillna, lat, lon, year)
NaN == -1000000

\* pandas NaT: what to_datetime(errors="coerce") gives an unparseable date
NaT == NaN

\* a missing value in a column of strings (landuse; a quarter outside Q1..Q4)
NaS == "<missing>"

\* the label Period.astype(str) gives a NaT sample date: the string "NaT"
MonthNaT == 0

\* the label "Q" + Int64.astype(str) gives a NaT sample date: "Q<NA>"
QuarterNA == "Q<NA>"

-----------------------------------------------------------------------------
(* CSV cells *)

StrCell(s) == [k |-> "str", s |-> s, n |-> 0]
PadCell(s) == [k |-> "str", s |-> s, n |-> 1]
NACell == [k |-> "na", s |-> "", n |-> 0]
NumCell(t) == [k |-> "num", s |-> "", n |-> t]
DateCell(d) == [k |-> "date", s |-> "", n |-> d]

-----------------------------------------------------------------------------
(* Column normalisation *)

\* pd.to_datetime(x, errors="coerce")
to_datetime(c) == IF c.k = "date" THEN c.n ELSE NaT

\* pd.to_numeric(x, errors="coerce"): a float in tenths, or NaN
to_numeric(c) == IF c.k = "num" THEN [nan |-> FALSE, t |-> c.n] ELSE [nan |-> TRUE, t |-> 0]

fillna_keep(x, v) == x

\* .fillna(v)
fillna(x, v) == IF x.nan THEN [nan |-> FALSE, t |-> 10 * v] ELSE x

\* .astype(int): truncation toward zero
astype_int(x) ==
    IF x.nan THEN NaN
    ELSE IF x.t >= 0 THEN x.t \div 10 ELSE -((-x.t) \div 10)

\* pd.to_numeric(arth["count"], errors="coerce").fillna(0).astype(int)
NormCount(c) == astype_int(fillna(to_numeric(c), 0))

\* .astype(str).str.strip(): an empty cell becomes the text "nan"
str_strip(c) == IF c.k = "na" THEN "nan" ELSE c.s

\* One observation row after lines 23-31, with the joined and derived fields
\* still unset.
NormRow(r, cols) ==
    [site_code    |-> IF "site_code" \in cols THEN str_strip(r.site_code) ELSE "",
     display_name |-> IF "display_name" \in cols THEN str_strip(r.display_name) ELSE "",
     trap_name    |-> IF "trap_name" \in cols THEN str_strip(r.trap_name) ELSE "",
     count        |-> IF "count" \in cols THEN NormCount(r.count) ELSE NaN,
     sample_date  |-> IF "sample_date" \in cols THEN to_datetime(r.sample_date) ELSE NaT,
     lat |-> NaN, lon |-> NaN, landuse |-> NaS, region3 |-> "",
     year |-> NaN, month |-> MonthNaT, quarter |-> NaS]

NormRows(t) == [i \in 1..Len(t.rows) |-> NormRow(t.rows[i], t.cols)]

-----------------------------------------------------------------------------
(* Site coordinate lookup *)

LatCands == <<"lat", "latitude", "Lat", "Latitude">>
LonCands == <<"long", "lon", "longitude", "Longitude", "Long">>

\* the first candidate header the table has, "" (None) when it has none
FirstCand(cands, cols) ==
    LET hits == {i \in 1..Len(cands) : cands[i] \in cols}
    IN  IF hits = {} THEN ""
        ELSE cands[CHOOSE i \in hits : \A j \in hits : i <= j]

\* .drop_duplicates("site_code"): the first row of each site code
DropDuplicates(rows) ==
    LET keep == {i \in 1..Len(rows) :
                    \A j \in 1..(i - 1) : rows[j].site_code # rows[i].site_code}
        RECURSIVE Pick(_)
        Pick(i) == IF i > Len(rows) THEN <<>>
                   ELSE (IF i \in keep THEN <<rows[i]>> ELSE <<>>) \o Pick(i + 1)
    IN  Pick(1)

\* sites.dropna(subset=["site_code", lat_col, lon_col])
DropNaSites(rows) ==
    SelectSeq(rows, LAMBDA r : r.site_code.k # "na" /\ r.lat # NaN /\ r.lon # NaN)

\* lines 34-49: one coordinate pair per site, or the empty lookup
SiteLookup(t) ==
    IF FirstCand(LatCands, t.cols) # "" /\ FirstCand(LonCands, t.cols) # ""
       /\ "site_code" \in t.cols
    THEN DropDuplicates(DropNaSites(t.rows))
    ELSE <<>>

\* whether a lookup row's key cell equals an observation's cleaned site code
KeyMatch(key, cell) == cell.k = "str" /\ cell.n = 0 /\ cell.s = key

\* arth.merge(site_lookup, on="site_code", how="left")
RECURSIVE MergeSites(_, _)
MergeSites(rows, lookup) ==
    IF rows = <<>> THEN <<>>
    ELSE LET r == Head(rows)
             ms == SelectSeq(lookup, LAMBDA x : KeyMatch(r.site_code, x.site_code))
         IN  (IF ms = <<>> THEN <<r>>
              ELSE [i \in 1..Len(ms) |-> [r EXCEPT !.lat = ms[i].lat, !.lon = ms[i].lon]])
             \o MergeSites(Tail(rows), lookup)

\* arth.merge(landuse_map[["site_code", "landuse"]], on="site_code", how="left")
RECURSIVE MergeLanduse(_, _)
MergeLanduse(rows, lu) ==
    IF rows = <<>> THEN <<>>
    ELSE LET r == Head(rows)
             ms == SelectSeq(lu, LAMBDA x : KeyMatch(r.site_code, x.site_code))
         IN  (IF ms = <<>> THEN <<r>>
              ELSE [i \in 1..Len(ms) |-> [r EXCEPT !.landuse = ms[i].landuse]])
             \o MergeLanduse(Tail(rows), lu)

\* arth["region3"] = arth["landuse"].fillna("Unknown")
Region3(r) == [r EXCEPT !.region3 = IF r.landuse = NaS THEN "Unknown" ELSE r.landuse]

-----------------------------------------------------------------------------
(* Derived calendar fields *)

\* .dt.year
YearOf(d) == IF d = NaT THEN NaN ELSE d \div 10000

\* .dt.to_period("M").astype(str): yyyymm for "YYYY-MM"
MonthOf(d) == IF d = NaT THEN MonthNaT ELSE d \div 100

\* "Q" + .dt.quarter.astype("Int64").astype(str)
QuarterOf(d) ==
    IF d = NaT THEN QuarterNA
    ELSE LET q == (((d \div 100) % 100) - 1) \div 3 + 1
         IN  CASE q = 1 -> "Q1" [] q = 2 -> "Q2" [] q = 3 -> "Q3" [] OTHER -> "Q4"

Derived(r) ==
    [r EXCEPT !.year = YearOf(r.sample_date),
              !.month = MonthOf(r.sample_date),
              !.quarter = QuarterOf(r.sample_date)]

-----------------------------------------------------------------------------
(* Tables *)

Table(obj, cols, rows) == [obj |-> obj, cols |-> cols, rows |-> rows]

Has(t, c) == c \in t.cols

DfCopyAlias(df) == df

\* df.copy(): a new object with the same content
DfCopy(df) == Table("derived", df.cols, df.rows)

\* g[mask]: boolean indexing returns a new object holding the rows kept
Masked(g, rows) == Table("derived", g.cols, rows)

\* g.empty
Empty(g) == g.rows = <<>> \/ g.cols = {}

\* taxon_col = "display_name" if "display_name" in arth.columns else None ("")
TaxonCol(t) == IF Has(t, "display_name") THEN "display_name" ELSE ""

RECURSIVE SumCount(_)
SumCount(rows) == IF rows = <<>> THEN 0 ELSE Head(rows).count + SumCount(Tail(rows))

RowSet(rows) == {rows[i] : i \in 1..Len(rows)}

-----------------------------------------------------------------------------
(* Helper functions *)

\* np.log in millionths, for the totals the bounds allow
LnMicro ==
    <<0, 693147, 1098612, 1386294, 1609438, 1791759, 1945910, 2079442, 2197225,
      2302585, 2397895, 2484907, 2564949, 2639057, 2708050, 2772589, 2833213,
      2890372, 2944439, 2995732, 3044522, 3091042, 3135494, 3178054, 3218876,
      3258097, 3295837, 3332205, 3367296, 3401197, 3433987, 3465736, 3496508,
      3526361, 3555348, 3583519, 3610918, 3637586, 3663562, 3688879>>

RECURSIVE SumSeq(_)
SumSeq(s) == IF s = <<>> THEN 0 ELSE Head(s) + SumSeq(Tail(s))

\* counts[counts > 0]
Positive(counts) == SelectSeq(counts, LAMBDA c : c > 0)

shannon_unsigned(counts) ==
    LET pos == Positive(counts)
        S == SumSeq(pos)
        plogp == [i \in 1..Len(pos) |-> pos[i] * (LnMicro[pos[i]] - LnMicro[S])]
    IN  IF Len(pos) = 0 THEN 0 ELSE SumSeq(plogp) \div S

\* shannon_index: -sum(p * log(p)) with p = counts / counts.sum(), in millionths
shannon_index(counts) ==
    LET pos == Positive(counts)
        S == SumSeq(pos)
        \* S * p * log(p) for one count
        plogp == [i \in 1..Len(pos) |-> pos[i] * (LnMicro[pos[i]] - LnMicro[S])]
    IN  IF Len(pos) = 0 THEN 0 ELSE (-SumSeq(plogp)) \div S

\* the values of a per-key total, as an array
RECURSIVE ValuesOf(_, _)
ValuesOf(keys, tot) ==
    IF keys = {} THEN <<>>
    ELSE LET k == CHOOSE x \in keys : TRUE
         IN  <<tot[k]>> \o ValuesOf(keys \ {k}, tot)

\* df.groupby(taxon_col)["count"].sum()
TaxonTotals(rows) ==
    [t \in {r.display_name : r \in RowSet(rows)} |->
        SumCount(SelectSeq(rows, LAMBDA r : r.display_name = t))]

\* compute_diversity: one row per (site, year) group, rows without a year dropped
compute_diversity(df) ==
    IF TaxonCol(df) = "" \/ ~Has(df, "year") THEN {}
    ELSE LET keys == {<<r.site_code, r.year>> : r \in {x \in RowSet(df.rows) : x.year # NaN}}
         IN  {LET g == SelectSeq(df.rows, LAMBDA r : r.site_code = k[1] /\ r.year = k[2])
                  tot == TaxonTotals(g)
              IN  [site_code |-> k[1], year |-> k[2],
                   richness |-> Cardinality(DOMAIN tot),
                   shannon |-> shannon_index(ValuesOf(DOMAIN tot, tot))] : k \in keys}

SortsBeforeAsc(a, b, tot) == tot[a] < tot[b] \/ (tot[a] = tot[b] /\ tie[a] < tie[b])

\* sort_values(ascending=False): a larger total first; equal totals in the order
\* the sort leaves them (the default kind, quicksort, is not stable)
SortsBefore(a, b, tot) == tot[a] > tot[b] \/ (tot[a] = tot[b] /\ tie[a] < tie[b])

RECURSIVE SortValues(_, _)
SortValues(keys, tot) ==
    IF keys = {} THEN <<>>
    ELSE LET k == CHOOSE x \in keys : \A y \in keys \ {x} : SortsBefore(x, y, tot)
         IN  <<k>> \o SortValues(keys \ {k}, tot)

\* .head(n)
HeadN(s, n) == SubSeq(s, 1, IF n < Len(s) THEN n ELSE Len(s))

\* top_taxa (main.py)
top_taxa(df, n) ==
    IF TaxonCol(df) = "" THEN <<>>
    ELSE LET tot == TaxonTotals(df.rows)
         IN  HeadN(SortValues(DOMAIN tot, tot), n)

\* top_taxa (streamlit_app.py): also [] for an empty table
st_top_taxa(df, n) == IF TaxonCol(df) = "" \/ Empty(df) THEN <<>> ELSE top_taxa(df, n)

SeqSet(s) == {s[i] : i \in 1..Len(s)}

\* the least / greatest parsed sample date, NaT when none parsed
MinDate(rows) ==
    LET ds == {r.sample_date : r \in RowSet(rows)} \ {NaT}
    IN  IF ds = {} THEN NaT ELSE CHOOSE d \in ds : \A e \in ds : d <= e

MaxDate(rows) ==
    LET ds == {r.sample_date : r \in RowSet(rows)} \ {NaT}
    IN  IF ds = {} THEN NaT ELSE CHOOSE d \in ds : \A e \in ds : d >= e

-----------------------------------------------------------------------------
(* Startup: lines 17-116 of main.py, 17-67 and 102-104 of streamlit_app.py *)

\* the joined table: normalise, merge coordinates, merge land use, derive
Joined(obs, st, lu) ==
    LET merged == MergeLanduse(MergeSites(NormRows(obs), SiteLookup(st)), lu.rows)
        r3 == [i \in 1..Len(merged) |-> Region3(merged[i])]
    IN  Table("base",
              obs.cols \cup {"lat", "lon", "landuse", "region3"}
                  \cup (IF "sample_date" \in obs.cols THEN {"year", "month", "quarter"} ELSE {}),
              IF "sample_date" \in obs.cols
              THEN [i \in 1..Len(r3) |-> Derived(r3[i])] ELSE r3)

\* the statements of the startup code that raise KeyError
StartupRaises(obs, lu) ==
    \/ "site_code" \notin obs.cols                          \* merge on="site_code"
    \/ ~({"site_code", "landuse"} \subseteq lu.cols)         \* landuse_map[[...]]
    \/ ("display_name" \in obs.cols /\ "count" \notin obs.cols)  \* top_taxa(arth, 100)

NoOpts ==
    [site_options |-> {}, taxa_options |-> <<>>, trap_options |-> {},
     min_date |-> NaT, max_date |-> NaT, year_values |-> {}]

EmptyTable == Table("base", {}, <<>>)

Options(a) ==
    [site_options |-> IF Has(a, "site_code") THEN {r.site_code : r \in RowSet(a.rows)} ELSE {},
     taxa_options |-> IF TaxonCol(a) # "" THEN top_taxa(a, 100) ELSE <<>>,
     trap_options |-> IF Has(a, "trap_name") THEN {r.trap_name : r \in RowSet(a.rows)} ELSE {},
     min_date |-> IF Has(a, "sample_date") THEN MinDate(a.rows) ELSE NaT,
     max_date |-> IF Has(a, "sample_date") THEN MaxDate(a.rows) ELSE NaT,
     year_values |-> IF Has(a, "year") THEN {r.year : r \in RowSet(a.rows)} \ {NaN} ELSE {}]

Prepare ==
    /\ pc = "load"
    /\ IF StartupRaises(arth_csv, landuse_csv)
       THEN /\ pc' = "raised"
            /\ UNCHANGED <<arth, opts>>
       ELSE /\ pc' = "ready"
            /\ arth' = Joined(arth_csv, sites_csv, landuse_csv)
            /\ opts' = Options(arth')
    /\ UNCHANGED <<arth_csv, sites_csv, landuse_csv, tie, out>>

-----------------------------------------------------------------------------
(* Filter values.  A list-valued control gives [given, vals]: None when     *)
(* not given, else the list vals.  A date gives [given, d]: None, or the    *)
(* date pd.to_datetime parses from its string.                              *)

NoList == [given |-> FALSE, vals |-> {}]
List(S) == [given |-> TRUE, vals |-> S]
NoDate == [given |-> FALSE, d |-> NaT]
DateArg(d) == [given |-> TRUE, d |-> d]

TruthyGiven(l) == l.given

\* Python truthiness of a list argument: None and [] are false
Truthy(l) == l.given /\ l.vals # {}

\* comparisons of timestamps: any comparison with NaT is False
Ge(a, b) == a # NaT /\ b # NaT /\ a >= b
Le(a, b) == a # NaT /\ b # NaT /\ a <= b

IsIn(x, l) == x \in l.vals

\* apply_filters (main.py)
apply_filters(df, sites, taxa, traps, start_date, end_date) ==
    LET g0 == DfCopy(df)
        g1 == IF Truthy(sites)
              THEN Masked(g0, SelectSeq(g0.rows, LAMBDA r : IsIn(r.site_code, sites))) ELSE g0
        g2 == IF Truthy(taxa) /\ TaxonCol(df) # ""
              THEN Masked(g1, SelectSeq(g1.rows, LAMBDA r : IsIn(r.display_name, taxa))) ELSE g1
        g3 == IF Truthy(traps) /\ Has(g2, "trap_name")
              THEN Masked(g2, SelectSeq(g2.rows, LAMBDA r : IsIn(r.trap_name, traps))) ELSE g2
    IN  IF Has(g3, "sample_date") /\ start_date.given /\ end_date.given
        THEN Masked(g3, SelectSeq(g3.rows, LAMBDA r : Ge(r.sample_date, start_date.d)
                                                      /\ Le(r.sample_date, end_date.d)))
        ELSE g3

\* apply_filters (streamlit_app.py)
st_apply_filters(df, sites, taxa, years) ==
    LET g0 == DfCopy(df)
        g1 == IF Truthy(sites)
              THEN Masked(g0, SelectSeq(g0.rows, LAMBDA r : IsIn(r.site_code, sites))) ELSE g0
        g2 == IF Truthy(taxa) /\ TaxonCol(df) # ""
              THEN Masked(g1, SelectSeq(g1.rows, LAMBDA r : IsIn(r.display_name, taxa))) ELSE g1
    IN  IF Truthy(years) /\ Has(g2, "year")
        THEN Masked(g2, SelectSeq(g2.rows, LAMBDA r : IsIn(r.year, years))) ELSE g2

-----------------------------------------------------------------------------
(* Aggregates *)

\* g.groupby(["month", "site_code"], dropna=False)["count"].sum().reset_index()
MonthlyBySite(g) ==
    LET rows == g.rows
    IN  {[month |-> k[1], site_code |-> k[2],
          count |-> SumCount(SelectSeq(rows, LAMBDA r : r.month = k[1] /\ r.site_code = k[2]))]
         : k \in {<<r.month, r.site_code>> : r \in RowSet(rows)}}

\* np.where(comp[taxon_col].isin(top_local), comp[taxon_col], "Other")
Collapse(rows, top_local) ==
    [i \in 1..Len(rows) |->
        IF rows[i].display_name \in SeqSet(top_local) THEN rows[i]
        ELSE [rows[i] EXCEPT !.display_name = "Other"]]

\* comp.groupby(["site_code", taxon_col])["count"].sum().reset_index()
BySiteTaxon(rows) ==
    {[site_code |-> k[1], display_name |-> k[2],
      count |-> SumCount(SelectSeq(rows, LAMBDA r : r.site_code = k[1] /\ r.display_name = k[2]))]
     : k \in {<<r.site_code, r.display_name>> : r \in RowSet(rows)}}

\* pd.Categorical(lu_agg["quarter"], categories=["Q1", "Q2", "Q3", "Q4"])
QuarterCategory(q) == IF q \in {"Q1", "Q2", "Q3", "Q4"} THEN q ELSE NaS

\* g.groupby(["region3", "quarter"], dropna=False)["count"].sum().reset_index(),
\* the quarter made categorical
QuarterByRegion(g) ==
    LET rows == g.rows
    IN  {[region3 |-> k[1], quarter |-> QuarterCategory(k[2]),
          count |-> SumCount(SelectSeq(rows, LAMBDA r : r.region3 = k[1] /\ r.quarter = k[2]))]
         : k \in {<<r.region3, r.quarter>> : r \in RowSet(rows)}}

\* g[["lat", "lon"]].dropna()
WithCoords(rows) == SelectSeq(rows, LAMBDA r : r.lat # NaN /\ r.lon # NaN)

MapRowsAll(rows) == rows

\* the rows groupby(["site_code", "lat", "lon"], dropna=True) groups
MapRows(rows) == WithCoords(rows)

\* g.groupby(["site_code", "lat", "lon"], dropna=True)["count"].sum().reset_index()
SiteMap(g) ==
    LET rows == MapRows(g.rows)
    IN  {[site_code |-> k[1], lat |-> k[2], lon |-> k[3],
          count |-> SumCount(SelectSeq(rows, LAMBDA r :
                        r.site_code = k[1] /\ r.lat = k[2] /\ r.lon = k[3]))]
         : k \in {<<r.site_code, r.lat, r.lon>> : r \in RowSet(rows)}}

\* the summary line: records, sites, taxa
RecText(g) ==
    [records |-> Len(g.rows),
     sites |-> IF Has(g, "site_code") THEN Cardinality({r.site_code : r \in RowSet(g.rows)}) ELSE 0,
     taxa |-> IF TaxonCol(g) # "" /\ ~Empty(g)
              THEN Cardinality({r.display_name : r \in RowSet(g.rows)}) ELSE 0]

-----------------------------------------------------------------------------
(* Interactions *)

NoFilters ==
    [sites |-> NoList, taxa |-> NoList, traps |-> NoList,
     start_date |-> NoDate, end_date |-> NoDate, years |-> NoList]

\* nothing returned yet, or the handler raised
NoOut(app, raised, f) ==
    [app |-> app, raised |-> raised, filters |-> f, n |-> 0, g |-> <<>>,
     ts_ok |-> FALSE, ts |-> {}, div |-> {},
     comp_ok |-> FALSE, top_local |-> <<>>, comp_agg |-> {},
     lu_ok |-> FALSE, lu_agg |-> {}, map_ok |-> FALSE, m |-> {},
     rec_text |-> [records |-> 0, sites |-> 0, taxa |-> 0]]

\* the object the "Other" collapse assigns into is comp; the base table
\* changes only if comp is the base object itself
BaseAfter(comp, collapsed) ==
    IF comp.obj = "base" THEN [arth EXCEPT !.rows = collapsed] ELSE arth

\* update_visuals (main.py): the "Apply filters" callback
update_visuals(sites, taxa, traps, start_date, end_date) ==
    /\ pc = "ready"
    /\ LET f == [sites |-> sites, taxa |-> taxa, traps |-> traps,
                 start_date |-> start_date, end_date |-> end_date, years |-> NoList]
           g == apply_filters(arth, sites, taxa, traps, start_date, end_date)
           ts_ok == Has(g, "month")
           comp == DfCopy(g)
           comp_ok == TaxonCol(g) # "" /\ ~Empty(comp)
           lu_ok == {"region3", "quarter", "count"} \subseteq g.cols /\ ~Empty(g)
           map_ok == {"lat", "lon"} \subseteq g.cols /\ WithCoords(g.rows) # <<>>
           \* ["count"] on a groupby of a table without the column: KeyError
           raises == ~Has(g, "count") /\ (ts_ok \/ comp_ok \/ map_ok)
           top_local == IF comp_ok /\ ~raises THEN top_taxa(comp, 10) ELSE <<>>
           collapsed == Collapse(comp.rows, top_local)
       IN  IF raises
           THEN /\ out' = NoOut("dash", TRUE, f)
                /\ arth' = arth
           ELSE /\ out' = [app |-> "dash", raised |-> FALSE, filters |-> f, n |-> 10,
                           g |-> g.rows,
                           ts_ok |-> ts_ok,
                           ts |-> IF ts_ok THEN MonthlyBySite(g) ELSE {},
                           div |-> compute_diversity(g),
                           comp_ok |-> comp_ok, top_local |-> top_local,
                           comp_agg |-> IF comp_ok THEN BySiteTaxon(collapsed) ELSE {},
                           lu_ok |-> lu_ok,
                           lu_agg |-> IF lu_ok THEN QuarterByRegion(g) ELSE {},
                           map_ok |-> map_ok,
                           m |-> IF map_ok THEN SiteMap(g) ELSE {},
                           rec_text |-> RecText(g)]
                /\ arth' = IF comp_ok THEN BaseAfter(comp, collapsed) ELSE arth
    /\ pc' = "returned"
    /\ UNCHANGED <<arth_csv, sites_csv, landuse_csv, tie, opts>>

\* one run of the sidebar page (streamlit_app.py lines 106-196)
st_rerun(selected_sites, selected_taxa, selected_years) ==
    /\ pc = "ready"
    /\ LET f == [sites |-> selected_sites, taxa |-> selected_taxa, traps |-> NoList,
                 start_date |-> NoDate, end_date |-> NoDate, years |-> selected_years]
           g == st_apply_filters(arth, selected_sites, selected_taxa, selected_years)
           comp == DfCopy(g)
           comp_ok == TaxonCol(g) # "" /\ ~Empty(comp)
           lu_ok == {"region3", "quarter", "count"} \subseteq g.cols /\ ~Empty(g)
           map_ok == {"lat", "lon"} \subseteq g.cols /\ WithCoords(g.rows) # <<>>
           raises == ~Has(g, "count") /\ (comp_ok \/ map_ok)
           top_local == IF comp_ok /\ ~raises THEN st_top_taxa(comp, 10) ELSE <<>>
           collapsed == Collapse(comp.rows, top_local)
       IN  IF raises
           THEN /\ out' = NoOut("streamlit", TRUE, f)
                /\ arth' = arth
           ELSE /\ out' = [app |-> "streamlit", raised |-> FALSE, filters |-> f, n |-> 10,
                           g |-> g.rows,
                           ts_ok |-> FALSE, ts |-> {}, div |-> {},
                           comp_ok |-> comp_ok, top_local |-> top_local,
                           comp_agg |-> IF comp_ok THEN BySiteTaxon(collapsed) ELSE {},
                           lu_ok |-> lu_ok,
                           lu_agg |-> IF lu_ok THEN QuarterByRegion(g) ELSE {},
                           map_ok |-> map_ok,
                           m |-> IF map_ok THEN SiteMap(g) ELSE {},
                           rec_text |-> RecText(g)]
                /\ arth' = IF comp_ok THEN BaseAfter(comp, collapsed) ELSE arth
    /\ pc' = "returned"
    /\ UNCHANGED <<arth_csv, sites_csv, landuse_csv, tie, opts>>

\* the callback as Dash fires it when the page loads: nothing selected, the
\* date range at its initial values (start_date=min_date, end_date=max_date;
\* a NaT bound reaches the callback as None)
page_load ==
    update_visuals(NoList, NoList, NoList,
                   IF opts.min_date = NaT THEN NoDate ELSE DateArg(opts.min_date),
                   IF opts.max_date = NaT THEN NoDate ELSE DateArg(opts.max_date))

\* top_taxa applied to the base table for a given n
top_taxa_call(n) ==
    /\ pc = "ready"
    /\ out' = [NoOut("top_taxa", FALSE, NoFilters) EXCEPT
                  !.n = n, !.g = arth.rows, !.top_local = top_taxa(arth, n)]
    /\ pc' = "returned"
    /\ UNCHANGED <<arth_csv, sites_csv, landuse_csv, tie, arth, opts>>

\* the handler has returned: its result goes to the page and its locals are
\* released; the process waits for the next interaction
Respond ==
    /\ pc = "returned"
    /\ pc' = "ready"
    /\ out' = NoOut("none", FALSE, NoFilters)
    /\ UNCHANGED <<arth_csv, sites_csv, landuse_csv, tie, arth, opts>>

-----------------------------------------------------------------------------
(* Inputs *)

\* all sequences over S of length at most n
SeqsUpTo(S, n) == UNION {[1..k -> S] : k \in 0..n}

ObsCols == {"site_code", "display_name", "trap_name", "count", "sample_date"}

ObsRow(site, taxon, trap, cnt, date) ==
    [site_code |-> site, display_name |-> taxon, trap_name |-> trap,
     count |-> cnt, sample_date |-> date]

SiteRow(site, lat, lon) == [site_code |-> site, lat |-> lat, lon |-> lon]

LandRow(site, landuse) == [site_code |-> site, landuse |-> landuse]

\* every label a taxon column holds here, in the order Python sorts strings
LabelOrder ==
    <<"Ant", "Bee", "Cat", "Other", "T01", "T02", "T03", "T04", "T05", "T06",
      "T07", "T08", "T09", "T10", "T11", "T12", "T13", "nan">>

Labels == {LabelOrder[i] : i \in 1..Len(LabelOrder)}

\* equal totals left in the order groupby produced them (sorted labels): what
\* the sort does when it happens to be stable
StableTie == [l \in Labels |-> CHOOSE i \in 1..Len(LabelOrder) : LabelOrder[i] = l]

FullSites ==
    Table("derived", {"site_code", "lat", "long"},
          <<SiteRow(StrCell("S1"), 33, 112), SiteRow(StrCell("S2"), 34, 111)>>)

FullLanduse ==
    Table("derived", {"site_code", "landuse"},
          <<LandRow(StrCell("S1"), "Urban"), LandRow(StrCell("S2"), "Desert")>>)

InitRest ==
    /\ pc = "load"
    /\ arth = EmptyTable
    /\ opts = NoOpts
    /\ out = NoOut("none", FALSE, NoFilters)

-----------------------------------------------------------------------------
(* Filters: observation tables varying in site, taxon, trap and date *)

\* how many rows of FilterCatalog an observation table draws from
NFilterRows == 6

\* observation rows differing in site, taxon, trap and date (one date does
\* not parse)
FilterCatalog ==
    <<ObsRow(StrCell("S1"), StrCell("Ant"), StrCell("T1"), NumCell(10), DateCell(20200115)),
      ObsRow(StrCell("S2"), StrCell("Bee"), StrCell("T2"), NumCell(10), StrCell("unknown")),
      ObsRow(StrCell("S1"), StrCell("Bee"), StrCell("T1"), NumCell(20), DateCell(20210701)),
      ObsRow(StrCell("S1"), StrCell("Ant"), StrCell("T2"), NumCell(10), StrCell("unknown")),
      ObsRow(StrCell("S2"), StrCell("Ant"), StrCell("T1"), NumCell(30), DateCell(20200420)),
      ObsRow(StrCell("S2"), StrCell("Bee"), StrCell("T1"), NumCell(10), DateCell(20200115)),
      ObsRow(StrCell("S1"), StrCell("Bee"), StrCell("T2"), NumCell(10), DateCell(20200420)),
      ObsRow(StrCell("S2"), StrCell("Ant"), StrCell("T2"), NumCell(20), DateCell(20210701))>>

\* the rows of cat at the positions in idx, in their order in cat
RECURSIVE SubTable(_, _, _)
SubTable(cat, idx, i) ==
    IF i > Len(cat) THEN <<>>
    ELSE (IF i \in idx THEN <<cat[i]>> ELSE <<>>) \o SubTable(cat, idx, i + 1)

\* every table made of some of the first n rows of cat
TablesFrom(cat, n) ==
    {SubTable(cat, idx, 1) : idx \in SUBSET (1..(IF n < Len(cat) THEN n ELSE Len(cat)))}

InitFilter ==
    /\ arth_csv \in {Table("derived", ObsCols, rows) : rows \in TablesFrom(FilterCatalog, NFilterRows)}
    /\ sites_csv = FullSites
    /\ landuse_csv = FullLanduse
    /\ tie = StableTie
    /\ InitRest

NextFilter ==
    \/ Prepare
    \/ page_load
    \/ \E sites \in {NoList, List({}), List({"S1"}), List({"S9"})},
          taxa \in {NoList, List({"Ant"}), List({"Zed"})},
          traps \in {NoList, List({"T1"})},
          sd \in {NoDate, DateArg(20200115), DateArg(20200420)},
          ed \in {NoDate, DateArg(20200115), DateArg(20210701)} :
            update_visuals(sites, taxa, traps, sd, ed)
    \/ \E sites \in {List({}), List({"S1"}), List({"S9"})},
          taxa \in {List({}), List({"Ant"})},
          years \in {List({}), List({2020}), List({2020, 2021}), List({1999})} :
            st_rerun(sites, taxa, years)
    \/ Respond

SpecFilter == InitFilter /\ [][NextFilter]_vars

\* a handler of one of the two front ends has returned its result
Returned == pc = "returned" /\ out.app \in {"dash", "streamlit"} /\ ~out.raised

\* a list filter with at least one value selected
Selected(l) == l.given /\ l.vals # {}

\* both ends of the date range are set
RangeSelected(f) == f.start_date.given /\ f.end_date.given

\* the row satisfies every filter that is selected
Satisfies(r, f) ==
    /\ Selected(f.sites) => r.site_code \in f.sites.vals
    /\ Selected(f.taxa) => r.display_name \in f.taxa.vals
    /\ Selected(f.traps) => r.trap_name \in f.traps.vals
    /\ Selected(f.years) => r.year \in f.years.vals
    /\ RangeSelected(f) =>
          /\ r.sample_date # NaT
          /\ f.start_date.d <= r.sample_date
          /\ r.sample_date <= f.end_date.d

\* C1: apply_filters (both front ends) returns exactly the rows of the base
\* table, in their order, that satisfy every selected filter at once (site,
\* taxon, trap, date range with both ends set, year); an empty or unselected
\* filter removes no row, and a selected filter none of whose values occurs
\* in the table leaves no row.
FiltersSelectExactly ==
    Returned =>
        LET f == out.filters
        IN  /\ out.g = SelectSeq(arth.rows, LAMBDA r : Satisfies(r, f))
            /\ (~Selected(f.sites) /\ ~Selected(f.taxa) /\ ~Selected(f.traps)
                /\ ~Selected(f.years) /\ ~RangeSelected(f)) => out.g = arth.rows
            /\ (Selected(f.sites)
                /\ \A r \in RowSet(arth.rows) : r.site_code \notin f.sites.vals) => out.g = <<>>
            /\ (Selected(f.taxa)
                /\ \A r \in RowSet(arth.rows) : r.display_name \notin f.taxa.vals) => out.g = <<>>
            /\ (Selected(f.traps)
                /\ \A r \in RowSet(arth.rows) : r.trap_name \notin f.traps.vals) => out.g = <<>>
            /\ (Selected(f.years)
                /\ \A r \in RowSet(arth.rows) : r.year \notin f.years.vals) => out.g = <<>>

\* C1 witness: site, taxon and trap selected with a date range, some rows kept
\* and some removed
FiltersCombined ==
    /\ Returned
    /\ Selected(out.filters.sites) /\ Selected(out.filters.taxa)
    /\ Selected(out.filters.traps) /\ RangeSelected(out.filters)
    /\ out.g # <<>>
    /\ Len(out.g) < Len(arth.rows)

RECURSIVE TotalOf(_)
TotalOf(S) ==
    IF S = {} THEN 0
    ELSE LET x == CHOOSE y \in S : TRUE IN x.count + TotalOf(S \ {x})

Dated(rows) == SelectSeq(rows, LAMBDA r : r.sample_date # NaT)

\* C2 (as claimed): a record whose sample date did not parse is counted in no
\* group of the monthly series, of the diversity table or of the
\* quarter-by-region totals, whatever the filters.
UnparsedDateInNoAggregate ==
    Returned =>
        /\ out.ts_ok => TotalOf(out.ts) = SumCount(Dated(out.g))
        /\ \A d \in out.div : d.year # NaN
        /\ out.lu_ok => TotalOf(out.lu_agg) = SumCount(Dated(out.g))

\* C3 (as claimed): in the callback dashboard a record whose sample date did
\* not parse is in the returned record table whenever it matches the selected
\* site, taxon and trap filters.
UnparsedDateInRecordTable ==
    (Returned /\ out.app = "dash") =>
        \A r \in RowSet(arth.rows) :
            (/\ r.sample_date = NaT
             /\ Selected(out.filters.sites) => r.site_code \in out.filters.sites.vals
             /\ Selected(out.filters.taxa) => r.display_name \in out.filters.taxa.vals
             /\ Selected(out.filters.traps) => r.trap_name \in out.filters.traps.vals)
            => r \in RowSet(out.g)

-----------------------------------------------------------------------------
(* Counts: observation tables varying in the raw count *)

\* rows of the observation table
MaxCountRows == 2

\* raw counts: -1.5, -1, 0, 1, 2.5, an empty cell, text
CountCells ==
    {NumCell(-15), NumCell(-10), NumCell(0), NumCell(10), NumCell(25), NACell, StrCell("many")}

CountRows ==
    {ObsRow(StrCell("S1"), StrCell("Ant"), StrCell("T1"), c, DateCell(20200115)) : c \in CountCells}

InitCount ==
    /\ arth_csv \in {Table("derived", ObsCols, rows) : rows \in SeqsUpTo(CountRows, MaxCountRows)}
    /\ sites_csv = FullSites
    /\ landuse_csv = FullLanduse
    /\ tie = StableTie
    /\ InitRest

NextCount ==
    \/ Prepare
    \/ page_load
    \/ \E taxa \in {NoList, List({"Ant"})} :
            update_visuals(NoList, taxa, NoList, NoDate, NoDate)
    \/ \E years \in {List({}), List({2020})} :
            st_rerun(List({}), List({}), years)
    \/ Respond

SpecCount == InitCount /\ [][NextCount]_vars

Prepared == pc \in {"ready", "returned"}

Abs(x) == IF x < 0 THEN -x ELSE x

\* C4 (amended): after data preparation every row's count is a whole number
\* obtained from the raw value by dropping its fraction (a negative value
\* stays negative), and a raw count that is missing or is not a number
\* becomes exactly 0.
CountsAreWholeNumbers ==
    Prepared =>
        /\ Len(arth.rows) = Len(arth_csv.rows)
        /\ \A i \in 1..Len(arth.rows) :
              LET c == arth_csv.rows[i].count
                  v == arth.rows[i].count
              IN  /\ v # NaN
                  /\ c.k # "num" => v = 0
                  /\ c.k = "num" =>
                        /\ v * c.n >= 0
                        /\ 10 * Abs(v) <= Abs(c.n)
                        /\ Abs(c.n) < 10 * Abs(v) + 10

\* C4 witness: an empty or textual count became 0 and a negative one stayed
\* negative
CountsCoerced ==
    /\ Prepared
    /\ \E i \in 1..Len(arth.rows) :
          arth_csv.rows[i].count.k # "num" /\ arth.rows[i].count = 0
    /\ \E i \in 1..Len(arth.rows) :
          arth_csv.rows[i].count.n = -15 /\ arth.rows[i].count = -1

\* C4 (as claimed): after data preparation every row's count is a
\* non-negative integer, and a missing or unparseable raw count is 0.
CountsNonNegative ==
    Prepared =>
        \A i \in 1..Len(arth.rows) :
            /\ arth.rows[i].count # NaN
            /\ arth.rows[i].count >= 0
            /\ (i <= Len(arth_csv.rows) /\ arth_csv.rows[i].count.k # "num")
                  => arth.rows[i].count = 0

-----------------------------------------------------------------------------
(* Diversity: observation tables varying in taxon and count *)

\* rows of the observation table
MaxDivRows == 3

DivRows ==
    {ObsRow(StrCell("S1"), StrCell(t), StrCell("T1"), c, DateCell(20200115)) :
        t \in {"Ant", "Bee", "Cat"},
        c \in {NumCell(-10), NumCell(0), NumCell(10), NumCell(20)}}

InitDiv ==
    /\ arth_csv \in {Table("derived", ObsCols, rows) : rows \in SeqsUpTo(DivRows, MaxDivRows)}
    /\ sites_csv = FullSites
    /\ landuse_csv = FullLanduse
    /\ tie = StableTie
    /\ InitRest

NextDiv ==
    \/ Prepare
    \/ page_load
    \/ \E taxa \in {NoList, List({"Ant", "Bee"})} :
            update_visuals(NoList, taxa, NoList, NoDate, NoDate)
    \/ st_rerun(List({}), List({}), List({}))
    \/ Respond

SpecDiv == InitDiv /\ [][NextDiv]_vars

\* the total count of taxon t in the (site, year) group of the filtered table
GroupTotal(site, year, t) ==
    SumCount(SelectSeq(out.g, LAMBDA r :
        r.site_code = site /\ r.year = year /\ r.display_name = t))

GroupTaxa(site, year) ==
    {r.display_name : r \in {x \in RowSet(out.g) : x.site_code = site /\ x.year = year}}

\* C5 (amended): for every (site, year) group the Shannon index is never
\* negative, and it is 0.0 exactly when at most one taxon of the group has a
\* positive count total (none, or exactly one).
ShannonZeroIffAtMostOnePositive ==
    (Returned /\ out.app = "dash") =>
        \A d \in out.div :
            LET pos == {t \in GroupTaxa(d.site_code, d.year) :
                            GroupTotal(d.site_code, d.year, t) > 0}
            IN  /\ d.shannon >= 0
                /\ d.shannon = 0 <=> Cardinality(pos) <= 1

\* C5 witness: a group of several taxa of which exactly one has a positive
\* total, with index 0
ShannonZeroAmongSeveral ==
    /\ Returned /\ out.app = "dash"
    /\ \E d \in out.div :
          /\ d.richness >= 2
          /\ d.shannon = 0
          /\ Cardinality({t \in GroupTaxa(d.site_code, d.year) :
                             GroupTotal(d.site_code, d.year, t) > 0}) = 1

\* C5 (as claimed): the index is never negative and is 0.0 if and only if
\* exactly one taxon of the group has a nonzero count total.
ShannonZeroIffExactlyOneNonzero ==
    (Returned /\ out.app = "dash") =>
        \A d \in out.div :
            LET nz == {t \in GroupTaxa(d.site_code, d.year) :
                            GroupTotal(d.site_code, d.year, t) # 0}
            IN  /\ d.shannon >= 0
                /\ d.shannon = 0 <=> Cardinality(nz) = 1

-----------------------------------------------------------------------------
(* Top-N taxa: observation tables varying in taxon and count, and every way *)
(* the sort may order equal totals                                          *)

\* rows of the observation table
MaxTopRows == 3

\* the largest n top_taxa is called with
MaxTopN == 2

TopRows ==
    {ObsRow(StrCell("S1"), StrCell(t), StrCell("T1"), c, DateCell(20200115)) :
        t \in {"Ant", "Bee", "Cat"}, c \in {NumCell(10), NumCell(20)}}

InitTop ==
    /\ arth_csv \in {Table("derived", ObsCols, rows) : rows \in SeqsUpTo(TopRows, MaxTopRows)}
    /\ sites_csv = FullSites
    /\ landuse_csv = FullLanduse
    /\ tie \in {[l \in Labels |-> IF l \in DOMAIN p THEN StableTie[p[l]] ELSE StableTie[l]] :
                   p \in Permutations({"Ant", "Bee", "Cat"})}
    /\ InitRest

NextTop ==
    \/ Prepare
    \/ \E n \in 1..MaxTopN : top_taxa_call(n)
    \/ update_visuals(NoList, NoList, NoList, NoDate, NoDate)
    \/ st_rerun(List({}), List({}), List({}))
    \/ Respond

SpecTop == InitTop /\ [][NextTop]_vars

\* the total count of taxon t in rows
TotalOfTaxon(rows, t) == SumCount(SelectSeq(rows, LAMBDA r : r.display_name = t))

TaxaIn(rows) == {r.display_name : r \in RowSet(rows)}

\* L lists, without repeats, the n taxa of rows with the largest totals (all
\* of them when rows has fewer), a larger total first
IsTopN(L, rows, n) ==
    /\ Len(L) = (IF n < Cardinality(TaxaIn(rows)) THEN n ELSE Cardinality(TaxaIn(rows)))
    /\ SeqSet(L) \subseteq TaxaIn(rows)
    /\ \A i, j \in 1..Len(L) : i < j =>
          /\ L[i] # L[j]
          /\ TotalOfTaxon(rows, L[i]) >= TotalOfTaxon(rows, L[j])
    /\ \A t \in TaxaIn(rows) \ SeqSet(L) : \A i \in 1..Len(L) :
          TotalOfTaxon(rows, L[i]) >= TotalOfTaxon(rows, t)

\* the position of the first row of taxon t
FirstRow(rows, t) == CHOOSE i \in 1..Len(rows) :
    rows[i].display_name = t /\ \A j \in 1..(i - 1) : rows[j].display_name # t

\* a list produced by top_taxa in this state, with its table and its n
TopLists ==
    (IF Prepared THEN {<<opts.taxa_options, arth.rows, 100>>} ELSE {})
    \cup (IF pc = "returned" /\ out.app = "top_taxa"
          THEN {<<out.top_local, out.g, out.n>>} ELSE {})
    \cup (IF Returned /\ out.comp_ok THEN {<<out.top_local, out.g, 10>>} ELSE {})

\* C6 (amended): top_taxa(df, n) returns the n taxa with the largest total
\* count (all taxa when there are fewer), in descending order of total; taxa
\* whose totals are equal come in whatever order the sort leaves them, which
\* need not be the order of their first rows.
TopTaxaDescending ==
    \A x \in TopLists : IsTopN(x[1], x[2], x[3])

\* C6 witness: top_taxa cut a table of three taxa, two of them with equal
\* totals, to its top two
TopTaxaCutWithTie ==
    /\ pc = "returned" /\ out.app = "top_taxa" /\ out.n = 2
    /\ Cardinality(TaxaIn(out.g)) = 3
    /\ Len(out.top_local) = 2
    /\ TotalOfTaxon(out.g, out.top_local[1]) = TotalOfTaxon(out.g, out.top_local[2])

\* C6 (as claimed): the list is the top n in descending order of total, and
\* of two taxa with equal totals the one whose first row comes earlier in
\* the table is ranked first.  Stated for a sort that is stable (numpy's
\* quicksort on at most 16 elements), which leaves equal totals in the order
\* of groupby's sorted labels; an unstable sort promises no order at all.
TopTaxaTiesByFirstRow ==
    tie = StableTie =>
        \A x \in TopLists :
            /\ IsTopN(x[1], x[2], x[3])
            /\ \A i, j \in 1..Len(x[1]) :
                  (i < j /\ TotalOfTaxon(x[2], x[1][i]) = TotalOfTaxon(x[2], x[1][j]))
                     => FirstRow(x[2], x[1][i]) < FirstRow(x[2], x[1][j])

-----------------------------------------------------------------------------
(* Joins: observation, coordinate and land-use tables varying in their     *)
(* site codes                                                              *)

\* rows of the observation table
MaxObsRows == 2

\* rows of the coordinate table
MaxSiteRows == 2

\* rows of the land-use table
MaxLandRows == 2

JoinRows ==
    {ObsRow(StrCell(s), StrCell("Ant"), StrCell("T1"), NumCell(10), DateCell(20200115)) :
        s \in {"S1", "S2"}}

\* S1 with coordinates (twice, differing), S2 with a missing latitude
JoinSiteRows ==
    {SiteRow(StrCell("S1"), 33, 112), SiteRow(StrCell("S1"), 35, 110),
     SiteRow(StrCell("S2"), NaN, 111)}

JoinLandRows ==
    {LandRow(StrCell("S1"), "Urban"), LandRow(StrCell("S1"), "Desert"),
     LandRow(StrCell("S2"), NaS)}

InitJoin ==
    /\ arth_csv \in {Table("derived", ObsCols, rows) : rows \in SeqsUpTo(JoinRows, MaxObsRows)}
    /\ sites_csv \in {Table("derived", {"site_code", "lat", "long"}, rows) :
                         rows \in SeqsUpTo(JoinSiteRows, MaxSiteRows)}
    /\ landuse_csv \in {Table("derived", {"site_code", "landuse"}, rows) :
                           rows \in SeqsUpTo(JoinLandRows, MaxLandRows)}
    /\ tie = StableTie
    /\ InitRest

NextJoin ==
    \/ Prepare
    \/ page_load
    \/ \E sites \in {NoList, List({"S2"})} :
            update_visuals(sites, NoList, NoList, NoDate, NoDate)
    \/ \E sites \in {List({}), List({"S2"})} :
            st_rerun(sites, List({}), List({}))
    \/ Respond

SpecJoin == InitJoin /\ [][NextJoin]_vars

\* the site codes with a row in the coordinate table that has both coordinates
SitesWithCoords ==
    {r.site_code.s : r \in {x \in RowSet(sites_csv.rows) :
        x.site_code.k = "str" /\ x.site_code.n = 0 /\ x.lat # NaN /\ x.lon # NaN}}

\* the site codes of the observation table
ObservedSites == {str_strip(r.site_code) : r \in RowSet(arth_csv.rows)}

OfSite(rows, s) == SelectSeq(rows, LAMBDA r : r.site_code = s)

\* C7: a site of the observation table without a usable row in the
\* coordinate table keeps all its records in the joined and the filtered
\* table, with lat and lon missing; it is absent from the map aggregate and
\* counted in the monthly, composition and quarter-by-region aggregates.
\* Every site of the map aggregate has one row, with both coordinates, and
\* every site with coordinates and a filtered record is on the map.
MissingCoordsOnlyOffMap ==
    Returned =>
        /\ \A s \in ObservedSites \ SitesWithCoords :
              /\ Len(OfSite(arth.rows, s))
                    >= Len(SelectSeq(arth_csv.rows, LAMBDA r : str_strip(r.site_code) = s))
              /\ \A r \in RowSet(OfSite(arth.rows, s)) : r.lat = NaN /\ r.lon = NaN
              /\ OfSite(out.g, s)
                    = SelectSeq(OfSite(arth.rows, s), LAMBDA r : Satisfies(r, out.filters))
              /\ \A x \in out.m : x.site_code # s
              /\ out.ts_ok =>
                    TotalOf({x \in out.ts : x.site_code = s}) = SumCount(OfSite(out.g, s))
              /\ out.comp_ok =>
                    TotalOf({x \in out.comp_agg : x.site_code = s}) = SumCount(OfSite(out.g, s))
        /\ out.lu_ok => TotalOf(out.lu_agg) = SumCount(out.g)
        /\ \A x \in out.m :
              /\ x.lat # NaN /\ x.lon # NaN
              /\ \A y \in out.m : y.site_code = x.site_code => y = x
        /\ \A s \in SitesWithCoords :
              OfSite(out.g, s) # <<>> => \E x \in out.m : x.site_code = s

\* C7 witness: the filtered table holds a record of a site without
\* coordinates while another site is on the map
SiteOffMapBesideSiteOnMap ==
    /\ Returned
    /\ \E s \in ObservedSites \ SitesWithCoords : OfSite(out.g, s) # <<>>
    /\ out.m # {}
    /\ out.comp_ok /\ out.lu_ok

\* C10 (as claimed): the two left joins keep every observation record exactly
\* once, whatever the lookup tables hold: the joined table has as many rows
\* as the observation table and the same total count per site.
JoinKeepsEveryRecordOnce ==
    Prepared =>
        /\ Len(arth.rows) = Len(arth_csv.rows)
        /\ \A s \in ObservedSites :
              SumCount(OfSite(arth.rows, s))
                 = SumCount(OfSite(NormRows(arth_csv), s))

-----------------------------------------------------------------------------
(* Columns: every subset of the expected columns of the three files *)

ColsObs ==
    <<ObsRow(StrCell("S1"), StrCell("Ant"), StrCell("T1"), NumCell(10), DateCell(20200115)),
      ObsRow(StrCell("S2"), StrCell("Bee"), StrCell("T2"), NumCell(20), StrCell("unknown"))>>

InitCols ==
    /\ arth_csv \in {Table("derived", cols, ColsObs) : cols \in SUBSET ObsCols}
    /\ sites_csv \in {Table("derived", cols, FullSites.rows) :
                         cols \in SUBSET {"site_code", "latitude", "long"}}
    /\ landuse_csv \in {Table("derived", cols, FullLanduse.rows) :
                           cols \in SUBSET {"site_code", "landuse"}}
    /\ tie = StableTie
    /\ InitRest

NextCols ==
    \/ Prepare
    \/ page_load
    \/ \E traps \in {NoList, List({"T1"})} :
            update_visuals(NoList, NoList, traps, NoDate, NoDate)
    \/ \E years \in {List({}), List({2020})} :
            st_rerun(List({}), List({}), years)
    \/ Respond

SpecCols == InitCols /\ [][NextCols]_vars

\* C8 (as claimed): whichever of the expected columns the files lack, data
\* preparation and every aggregate complete without raising, and a lacking
\* column gives an empty option list or a placeholder.
AbsentColumnsNeverRaise ==
    /\ pc # "raised"
    /\ ~out.raised
    /\ Prepared =>
          /\ "site_code" \notin arth_csv.cols => opts.site_options = {}
          /\ "display_name" \notin arth_csv.cols => opts.taxa_options = <<>>
          /\ "trap_name" \notin arth_csv.cols => opts.trap_options = {}
    /\ Returned =>
          /\ "sample_date" \notin arth_csv.cols => ~out.ts_ok /\ out.div = {} /\ ~out.lu_ok
          /\ "display_name" \notin arth_csv.cols => ~out.comp_ok /\ out.div = {}
          /\ "count" \notin arth_csv.cols => ~out.lu_ok

-----------------------------------------------------------------------------
(* Composition: observation tables with more taxa than the ten the         *)
(* composition chart keeps                                                 *)

\* taxa of the largest observation table: one more than top_taxa(comp, n=10)
\* keeps
NComposeTaxa == 11

\* row i: taxon T<i>, sites alternating, counts 1..3 shifted by v
ComposeRow(i, v) ==
    ObsRow(StrCell(IF i % 2 = 1 THEN "S1" ELSE "S2"), StrCell(LabelOrder[4 + i]),
           StrCell("T1"), NumCell(10 * (((i + v) % 3) + 1)), DateCell(20200115))

InitCompose ==
    /\ arth_csv \in {Table("derived", ObsCols, [i \in 1..k |-> ComposeRow(i, v)]) :
                        k \in 0..NComposeTaxa, v \in 1..3}
    /\ sites_csv = FullSites
    /\ landuse_csv = FullLanduse
    /\ tie = StableTie
    /\ InitRest

NextCompose ==
    \/ Prepare
    \/ page_load
    \/ \E sites \in {NoList, List({"S1"})}, taxa \in {NoList, List({"T01", "T02"})} :
            update_visuals(sites, taxa, NoList, NoDate, NoDate)
    \/ \E sites \in {List({}), List({"S1"})}, years \in {List({}), List({2020})} :
            st_rerun(sites, List({}), years)
    \/ Respond

SpecCompose == InitCompose /\ [][NextCompose]_vars

\* C9: after any sequence of interactions with either front end the joined
\* base table is what startup made of the three files: filtering, the
\* "Other" collapse and the aggregates wrote to derived copies only, and the
\* rows an interaction returns are those of that table its own filters keep.
BaseTableUnchanged ==
    Prepared =>
        /\ arth = Joined(arth_csv, sites_csv, landuse_csv)
        /\ Returned =>
              out.g = SelectSeq(Joined(arth_csv, sites_csv, landuse_csv).rows,
                                LAMBDA r : Satisfies(r, out.filters))

\* C9 witness: an interaction collapsed the taxa beyond the top ten to "Other"
OtherCollapsed ==
    /\ Returned
    /\ Len(out.top_local) = 10
    /\ \E x \in out.comp_agg : x.display_name = "Other"
    /\ \A r \in RowSet(arth.rows) : r.display_name # "Other"

====
